---- MODULE Spec2Model ----
(***************************************************************************)
(* Extract-Build validation pipeline of kg_builder.                        *)
(*                                                                         *)
(* Texts (oracle generations, entity names, relations, type tags) are      *)
(* sequences of one-character strings, so that str.split, str.strip,       *)
(* str.lower, str.upper and re.findall are computed as Python computes     *)
(* them.  A triplet is the 3-tuple of texts the parsers return:            *)
(* <<"name:TYPE", relation, "name:TYPE">>.                                 *)
(***************************************************************************)
EXTENDS Integers, Sequences, FiniteSets, TLC

(***************************************************************************)
(* State                                                                   *)
(***************************************************************************)
VARIABLES
    chunks,                   \* split_text(text): the passages, in order
    delete_models_after_use,  \* argument of EBWorkflow.__call__
    stub,                     \* the oracles answer a prompt always the same
    oracle,                   \* what a stub oracle has answered, by prompt
    triplets,                 \* relations_data: the stored triplets
    provenance,               \* relations_data: triplet -> source passages
    extractor_client,         \* extractor_engine.client is cached
    builder_client,           \* builder_engine.client is cached
    extracted_triplets,       \* one candidate list per extracted passage
    pc,                       \* where __call__ / build_kg stands
    i,                        \* index of the current passage
    j,                        \* index of rel in proposed_relations
    attempts,                 \* attempts made of the pending chat_completion
    similar_relations,        \* build_kg local
    decision,                 \* build_kg local
    generated_text,           \* build_kg local
    previous_generation,      \* retry_validation argument
    error,                    \* retry_validation argument
    exception,                \* what __call__ raised
    hist,                     \* history: the candidates validated so far
    cur,                      \* history: the candidate being validated
    committed,                \* history: the add_triplets calls of the run
    commit_log,               \* history: the candidates committed, in order
    verdicts,                 \* history: outcomes under a stub oracle
    builder_texts,            \* the texts the validation oracle answers with
    decoded_text,             \* format_triplets argument (extracted_relations)
    asked,                    \* history: the groups decoded_text is made of
    valid,                    \* format_triplets: the list it returns
    warned,                   \* format_triplets: its warnings.warn calls
    api_key                   \* os.getenv("GEMINI_API_KEY", None)

vars == <<chunks, delete_models_after_use, stub, oracle, triplets, provenance,
          extractor_client, builder_client, extracted_triplets, pc, i, j,
          attempts, similar_relations, decision, generated_text,
          previous_generation, error, exception, hist, cur, committed,
          commit_log, verdicts, builder_texts, decoded_text, asked,
          valid, warned, api_key>>

(***************************************************************************)
(* Python string primitives                                                *)
(***************************************************************************)
LowerChars == <<"a","b","c","d","e","f","g","h","i","j","k","l","m",
                "n","o","p","q","r","s","t","u","v","w","x","y","z">>

UpperChars == <<"A","B","C","D","E","F","G","H","I","J","K","L","M",
                "N","O","P","Q","R","S","T","U","V","W","X","Y","Z">>

Whitespace == {" ", "\n", "\t"}

char_lower(c) ==
    IF \E k \in DOMAIN UpperChars : UpperChars[k] = c
    THEN LowerChars[CHOOSE k \in DOMAIN UpperChars : UpperChars[k] = c]
    ELSE c

char_upper(c) ==
    IF \E k \in DOMAIN LowerChars : LowerChars[k] = c
    THEN UpperChars[CHOOSE k \in DOMAIN LowerChars : LowerChars[k] = c]
    ELSE c

\* str.lower()
str_lower(s) == [k \in 1..Len(s) |-> char_lower(s[k])]

\* str.upper()
str_upper(s) == [k \in 1..Len(s) |-> char_upper(s[k])]

\* str.strip(): drops leading and trailing whitespace
str_strip(s) ==
    LET keep == {k \in 1..Len(s) : s[k] \notin Whitespace}
    IN  IF keep = {} THEN <<>>
        ELSE LET lo == CHOOSE k \in keep : \A m \in keep : k <= m
                 hi == CHOOSE k \in keep : \A m \in keep : k >= m
             IN  SubSeq(s, lo, hi)

\* str.find(sep) + 1: index of the first occurrence of sep in s, 0 if none
str_find(s, sep) ==
    LET hits == {k \in 1..(Len(s) - Len(sep) + 1) :
                    SubSeq(s, k, k + Len(sep) - 1) = sep}
    IN  IF hits = {} THEN 0
        ELSE CHOOSE k \in hits : \A m \in hits : k <= m

\* `sep in s`
str_contains(s, sep) == str_find(s, sep) # 0

\* str.split(sep): the pieces of s between the occurrences of sep
RECURSIVE str_split(_, _)
str_split(s, sep) ==
    LET k == str_find(s, sep)
    IN  IF k = 0 THEN <<s>>
        ELSE <<SubSeq(s, 1, k - 1)>>
             \o str_split(SubSeq(s, k + Len(sep), Len(s)), sep)

\* re.findall(r'\((.*?)\)', s): scanning from the left, each "(" is matched
\* with the nearest following ")" provided no newline lies between them
\* ('.' does not match a newline); the scan resumes after that ")".
RECURSIVE re_findall_groups(_)
re_findall_groups(s) ==
    LET closes(k) == {m \in (k + 1)..Len(s) : s[m] = ")"}
        close(k)  == CHOOSE m \in closes(k) : \A n \in closes(k) : m <= n
        opens == {k \in 1..Len(s) :
                    /\ s[k] = "("
                    /\ closes(k) # {}
                    /\ \A n \in (k + 1)..(close(k) - 1) : s[n] # "\n"}
    IN  IF opens = {} THEN <<>>
        ELSE LET k == CHOOSE o \in opens : \A p \in opens : o <= p
             IN  <<SubSeq(s, k + 1, close(k) - 1)>>
                 \o re_findall_groups(SubSeq(s, close(k) + 1, Len(s)))

Range(f) == {f[k] : k \in DOMAIN f}

Last(s) == s[Len(s)]

(***************************************************************************)
(* kg_builder.utils                                                        *)
(***************************************************************************)
\* a rendering that leaves the type tags out
get_triplet_string_untyped(triplet) ==
    <<"(">> \o SubSeq(triplet[1], 1, Len(triplet[1]) - 2) \o <<",", " ">>
            \o triplet[2] \o <<",", " ">>
            \o SubSeq(triplet[3], 1, Len(triplet[3]) - 2) \o <<")">>

\* f"({triplet[0]}, {triplet[1]}, {triplet[2]})"
get_triplet_string(triplet) ==
    <<"(">> \o triplet[1] \o <<",", " ">> \o triplet[2]
            \o <<",", " ">> \o triplet[3] \o <<")">>

(***************************************************************************)
(* kg_builder.prompts.prompting: the two parser modes                      *)
(***************************************************************************)
add_key == <<"A","d","d"," ","t","r","i","p","l","e","t",":">>

discard_triplet_value == <<"N","o","n","e">>

\* the entity name as written, neither trimmed nor lowercased
entity_name_verbatim(field) == str_split(field, <<":">>)[1]

\* split[0].split(':')[0].strip().lower()
entity_name(field) == str_lower(str_strip(str_split(field, <<":">>)[1]))

\* split[0].split(':')[-1].strip().upper()
entity_type(field) == str_upper(str_strip(Last(str_split(field, <<":">>))))

\* (f"{entity1}:{type1}", relation, f"{entity2}:{type2}")
standardize(split) ==
    << entity_name(split[1]) \o <<":">> \o entity_type(split[1]),
       str_lower(str_strip(split[2])),
       entity_name(split[3]) \o <<":">> \o entity_type(split[3]) >>

\* format_triplets' loop body without the check of the object's type
format_group_subject_only(r, allowed_types) ==
    LET split == str_split(r, <<",">>)
    IN  IF Len(split) # 3
        THEN [valid |-> FALSE, triplet |-> <<>>]
        ELSE IF entity_type(split[1]) \notin Range(allowed_types)
        THEN [valid |-> FALSE, triplet |-> <<>>]
        ELSE [valid |-> TRUE, triplet |-> standardize(split)]

\* one regex group r of format_triplets: the triplet it yields, or a warning
format_group(r, allowed_types) ==
    LET split == str_split(r, <<",">>)
    IN  IF Len(split) # 3
        THEN [valid |-> FALSE, triplet |-> <<>>]
        ELSE IF entity_type(split[1]) \notin Range(allowed_types)
        THEN [valid |-> FALSE, triplet |-> <<>>]
        ELSE IF entity_type(split[3]) \notin Range(allowed_types)
        THEN [valid |-> FALSE, triplet |-> <<>>]
        ELSE [valid |-> TRUE, triplet |-> standardize(split)]

\* format_triplets that gives up on the text at the first group of wrong arity
format_triplets_all_or_nothing(extracted_relations, allowed_types) ==
    LET relations == re_findall_groups(extracted_relations)
    IN  IF \E m \in 1..Len(relations) : Len(str_split(relations[m], <<",">>)) # 3
        THEN {}
        ELSE {format_group(relations[k], allowed_types).triplet :
                 k \in {m \in 1..Len(relations) :
                           format_group(relations[m], allowed_types).valid}}

\* ExtractorPrompting.format_triplets, before list(set(valid)): the set of
\* triplets of the groups that pass the arity and type checks
format_triplets(extracted_relations, allowed_types) ==
    LET relations == re_findall_groups(extracted_relations)
    IN  {format_group(relations[k], allowed_types).triplet :
            k \in {m \in 1..Len(relations) :
                      format_group(relations[m], allowed_types).valid}}

\* the number of warnings.warn calls of format_triplets
format_warnings(extracted_relations, allowed_types) ==
    LET relations == re_findall_groups(extracted_relations)
    IN  Cardinality({m \in 1..Len(relations) :
                        ~format_group(relations[m], allowed_types).valid})

\* f"{allowed_entity_types}": the repr of a list of str
RECURSIVE list_repr_items(_)
list_repr_items(types) ==
    IF Len(types) = 0 THEN <<>>
    ELSE <<"'">> \o types[1] \o <<"'">>
         \o (IF Len(types) > 1 THEN <<",", " ">> ELSE <<>>)
         \o list_repr_items(Tail(types))

list_repr(types) == <<"[">> \o list_repr_items(types) \o <<"]">>

\* The four error strings of extract_new_triplet; the literal parts are kept
\* as whole fragments, the interpolated values character by character.
MissingKeyError ==
    <<"The key '">> \o add_key
    \o <<"' is not present in the generated text. Please try again adding '">>
    \o add_key \o <<"' before the proposed triplet.">>

ArityError ==
    <<"A valid relation must have exactly 3 elements. Please try again producing a valid (subject:type, relation, object:type) triplet.">>

TypeError(allowed_entity_types) ==
    <<"The types of the subject and object of the triplet must be in ">>
    \o list_repr(allowed_entity_types)
    \o <<".You cannot add other types. Please try again returning either a valid triplet or ">>
    \o discard_triplet_value \o <<".">>

InvalidValueError ==
    <<"The value of the ">> \o add_key
    \o <<" key is not valid. The only allowed values are:\n - a single valid triplet (subject:type, relation, object:type) to be added - 'None' if the relation is already present in the graph.">>

\* The values extract_new_triplet returns: a 3-tuple, a str or None
TripletDecision(t) == [kind |-> "tuple", val |-> t]

ErrorDecision(msg) == [kind |-> "str", val |-> msg]

NoneDecision == [kind |-> "None", val |-> <<>>]

\* BuilderPrompting.extract_new_triplet that reads an answer without the key
\* as if the key came first
extract_new_triplet_keyless(generation, allowed_entity_types) ==
    LET proposed_triplet == IF str_contains(generation, add_key)
                            THEN str_split(generation, add_key)[2]
                            ELSE generation
        t == re_findall_groups(proposed_triplet)
    IN  IF str_contains(proposed_triplet, discard_triplet_value)
        THEN NoneDecision
        ELSE IF Len(t) = 1
        THEN LET triplet == str_split(t[1], <<",">>)
             IN  IF Len(triplet) # 3
                 THEN ErrorDecision(ArityError)
                 ELSE IF \/ entity_type(triplet[1]) \notin Range(allowed_entity_types)
                         \/ entity_type(triplet[3]) \notin Range(allowed_entity_types)
                 THEN ErrorDecision(TypeError(allowed_entity_types))
                 ELSE TripletDecision(standardize(triplet))
        ELSE ErrorDecision(InvalidValueError)

\* BuilderPrompting.extract_new_triplet that reads all the text after the
\* first key: generation.split(self.add_key, 1)[1]
extract_new_triplet_rest(generation, allowed_entity_types) ==
    IF ~str_contains(generation, add_key)
    THEN ErrorDecision(MissingKeyError)
    ELSE
    LET proposed_triplet ==
            SubSeq(generation, str_find(generation, add_key) + Len(add_key),
                   Len(generation))
        t == re_findall_groups(proposed_triplet)
    IN  IF str_contains(proposed_triplet, discard_triplet_value)
        THEN NoneDecision
        ELSE IF Len(t) = 1
        THEN LET triplet == str_split(t[1], <<",">>)
             IN  IF Len(triplet) # 3
                 THEN ErrorDecision(ArityError)
                 ELSE IF \/ entity_type(triplet[1]) \notin Range(allowed_entity_types)
                         \/ entity_type(triplet[3]) \notin Range(allowed_entity_types)
                 THEN ErrorDecision(TypeError(allowed_entity_types))
                 ELSE TripletDecision(standardize(triplet))
        ELSE ErrorDecision(InvalidValueError)

\* BuilderPrompting.extract_new_triplet without the whitelist check
extract_new_triplet_unchecked(generation, allowed_entity_types) ==
    IF ~str_contains(generation, add_key)
    THEN ErrorDecision(MissingKeyError)
    ELSE LET proposed_triplet == str_split(generation, add_key)[2]
             t == re_findall_groups(proposed_triplet)
         IN  IF str_contains(proposed_triplet, discard_triplet_value)
             THEN NoneDecision
             ELSE IF Len(t) = 1
             THEN LET triplet == str_split(t[1], <<",">>)
                  IN  IF Len(triplet) # 3
                      THEN ErrorDecision(ArityError)
                      ELSE TripletDecision(standardize(triplet))
             ELSE ErrorDecision(InvalidValueError)

\* BuilderPrompting.extract_new_triplet
extract_new_triplet(generation, allowed_entity_types) ==
    IF ~str_contains(generation, add_key)
    THEN ErrorDecision(MissingKeyError)
    ELSE LET proposed_triplet == str_split(generation, add_key)[2]
             t == re_findall_groups(proposed_triplet)
         IN  IF str_contains(proposed_triplet, discard_triplet_value)
             THEN NoneDecision
             ELSE IF Len(t) = 1
             THEN LET triplet == str_split(t[1], <<",">>)
                  IN  IF Len(triplet) # 3
                      THEN ErrorDecision(ArityError)
                      ELSE IF \/ entity_type(triplet[1]) \notin Range(allowed_entity_types)
                              \/ entity_type(triplet[3]) \notin Range(allowed_entity_types)
                      THEN ErrorDecision(TypeError(allowed_entity_types))
                      ELSE TripletDecision(standardize(triplet))
             ELSE ErrorDecision(InvalidValueError)

\* '\n'.join(lines)
RECURSIVE str_join(_)
str_join(lines) ==
    IF Len(lines) = 0 THEN <<>>
    ELSE IF Len(lines) = 1 THEN lines[1]
    ELSE lines[1] \o <<"\n">> \o str_join(Tail(lines))

EmptyGraph == <<"E","m","p","t","y"," ","g","r","a","p","h">>

\* The content of a message, kept as the values its f-string interpolates.
Content(kind, text, extracted, allowed_types, proposed, generation, err) ==
    [kind |-> kind, passage |-> text, extracted |-> extracted,
     allowed_types |-> allowed_types, proposed |-> proposed,
     generation |-> generation, error |-> err]

ExtractorSystemMessage ==
    [role |-> "system",
     content |-> Content("extractor_system_prompt", 0, <<>>, <<>>, <<>>, <<>>, <<>>)]

BuilderSystemMessage ==
    [role |-> "system",
     content |-> Content("builder_system_prompt", 0, <<>>, <<>>, <<>>, <<>>, <<>>)]

\* ExtractorPrompting.get_messages
extractor_get_messages(text, allowed_types) ==
    << ExtractorSystemMessage,
       [role |-> "user",
        content |-> Content("extract", text, <<>>, allowed_types,
                            <<>>, <<>>, <<>>)] >>

\* get_messages with the passage text in the prompt
get_messages_with_passage(proposed_relation, existing_relations, allowed_types) ==
    LET extracted == IF Len(existing_relations) = 0 THEN EmptyGraph
                     ELSE str_join(existing_relations)
    IN  << BuilderSystemMessage,
           [role |-> "user",
            content |-> Content("validate", chunks[i], extracted, allowed_types,
                                get_triplet_string(proposed_relation),
                                <<>>, <<>>)] >>

\* BuilderPrompting.get_messages
get_messages(proposed_relation, existing_relations, allowed_types) ==
    LET extracted == IF Len(existing_relations) = 0 THEN EmptyGraph
                     ELSE str_join(existing_relations)
    IN  << BuilderSystemMessage,
           [role |-> "user",
            content |-> Content("validate", 0, extracted, allowed_types,
                                get_triplet_string(proposed_relation),
                                <<>>, <<>>)] >>

\* BuilderPrompting.retry_messages
retry_messages(proposed_relation, existing_relations, generation, err, allowed_entity_types) ==
    get_messages(proposed_relation, existing_relations, allowed_entity_types)
    \o << [role |-> "user",
           content |-> Content("retry", 0, <<>>, <<>>, <<>>,
                               generation, err)] >>

(***************************************************************************)
(* kg_builder.engine.GeminiEngine                                          *)
(***************************************************************************)
\* stop_after_attempt(5)
StopAfterAttempt == 5

\* GeminiEngine.client: `if api_key is None: raise ValueError(...)`
client_raises == api_key = "None"

\* chat.send_message(messages[-1]["content"], config=cfg)
sent_message(messages) == Last(messages).content

(***************************************************************************)
(* Bounds and the texts the oracles answer with                            *)
(***************************************************************************)
MaxPassages == 2

TypeP == <<"P">>

TypeL == <<"L">>

AllowedTypes == <<TypeP, TypeL>>

AlInNy == << <<"a","l",":","P">>, <<"i","n">>, <<"n","y",":","L">> >>

BoInNy == << <<"b","o",":","P">>, <<"i","n">>, <<"n","y",":","L">> >>

\* "(Al:p, in, NY:L)"
GenExtractAl ==
    <<"(","A","l",":","p",","," ","i","n",","," ","N","Y",":","L",")">>

\* "(bo:P, in, ny:L)"
GenExtractBo ==
    <<"(","b","o",":","P",","," ","i","n",","," ","n","y",":","L",")">>

\* "(al:P, in, ny:L)\n(bo:P, in, ny:L)"
GenExtractBoth ==
    <<"(","a","l",":","P",","," ","i","n",","," ","n","y",":","L",")","\n",
      "(","b","o",":","P",","," ","i","n",","," ","n","y",":","L",")">>

\* "(al:X, in, ny:L) (bo:P, in)"
GenExtractNothing ==
    <<"(","a","l",":","X",","," ","i","n",","," ","n","y",":","L",")"," ",
      "(","b","o",":","P",","," ","i","n",")">>

ExtractorGenerations ==
    {GenExtractAl, GenExtractBo, GenExtractBoth, GenExtractNothing}

\* "Add triplet: (al:P, in, ny:L)"
GenAddAl ==
    add_key \o <<" ","(","a","l",":","P",","," ","i","n",","," ","n","y",":","L",")">>

\* "Add triplet: (Bo:p, IN, ny:L)"
GenAddBo ==
    add_key \o <<" ","(","B","o",":","p",","," ","I","N",","," ","n","y",":","L",")">>

\* "Add triplet: None"
GenDiscard == add_key \o <<" ","N","o","n","e">>

\* "I would add (al:P, in, ny:L)"
GenNoKey ==
    <<"I"," ","w","o","u","l","d"," ","a","d","d"," ",
      "(","a","l",":","P",","," ","i","n",","," ","n","y",":","L",")">>

\* "Add triplet: (al:X, in, ny:L)"
GenBadType ==
    add_key \o <<" ","(","a","l",":","X",","," ","i","n",","," ","n","y",":","L",")">>

BuilderGenerations ==
    {GenAddAl, GenAddBo, GenDiscard, GenNoKey, GenBadType}

\* "Add triplet: (:P, , :L)"
GenDegenerate ==
    add_key \o <<" ","(",":","P",","," ",","," ",":","L",")">>

\* the answers of a validation oracle that may name an empty triplet
DegenerateGenerations == {GenAddAl, GenDegenerate, GenDiscard, GenNoKey}

\* format_triplets on each text the extraction oracle answers with
Formatted ==
    [g \in ExtractorGenerations |-> format_triplets(g, AllowedTypes)]

\* extract_new_triplet on each text the validation oracle answers with
Decided ==
    [g \in BuilderGenerations \cup DegenerateGenerations |->
        extract_new_triplet(g, AllowedTypes)]

(***************************************************************************)
(* kg_builder.relations: the graph store and its retriever                 *)
(***************************************************************************)
\* the number of neighbours a retrieval asks for
TopK == 2

Min(a, b) == IF a <= b THEN a ELSE b

\* the orderings of a finite set
Orderings(S) ==
    {s \in [1..Cardinality(S) -> S] : \A t \in S : \E k \in DOMAIN s : s[k] = t}

\* a retriever that always returns TopK items, filling up with the candidate
retrieve_similar_triplets_padded(stored, rel) ==
    LET n == Min(TopK, Len(stored))
        picks == {s \in [1..n -> Range(stored)] :
                     \A a, b \in 1..n : a # b => s[a] # s[b]}
    IN  {[k \in 1..TopK |-> get_triplet_string(IF k <= n THEN s[k] ELSE rel)] :
            s \in picks}

\* a retriever that searches what the store held before the run's commits
retrieve_similar_triplets_at_start(stored, rel) ==
    LET old == SelectSeq(stored, LAMBDA t : \A c \in committed : c[1] # t)
        n == Min(TopK, Len(old))
        picks == {s \in [1..n -> Range(old)] :
                     \A a, b \in 1..n : a # b => s[a] # s[b]}
    IN  {[k \in 1..n |-> get_triplet_string(s[k])] : s \in picks}

\* SearchableRelations.retrieve_similar_triplets: the lists a retrieval may
\* return, the nearest stored triplets rendered as strings; which of the
\* stored triplets are nearest is the embedding's choice.
retrieve_similar_triplets(stored, rel) ==
    LET n == Min(TopK, Len(stored))
        picks == {s \in [1..n -> Range(stored)] :
                     \A a, b \in 1..n : a # b => s[a] # s[b]}
    IN  {[k \in 1..n |-> get_triplet_string(s[k])] : s \in picks}

\* add_triplets that keeps only what it is given
add_to_triplets_only(stored, t) == <<t>>

\* add_triplets that appends without looking
add_to_triplets_again(stored, t) == Append(stored, t)

\* add_triplets, on the triplets: a stored triplet is not stored again
add_to_triplets(stored, t) ==
    IF t \in Range(stored) THEN stored ELSE Append(stored, t)

\* add_triplets that replaces the passages of a stored triplet
add_to_provenance_replace(prov, t, text) ==
    IF t \in DOMAIN prov
    THEN [prov EXCEPT ![t] = {text}]
    ELSE prov @@ (t :> {text})

\* add_triplets, on the provenance: the passage joins the triplet's passages
add_to_provenance(prov, t, text) ==
    IF t \in DOMAIN prov
    THEN [prov EXCEPT ![t] = @ \cup {text}]
    ELSE prov @@ (t :> {text})

(***************************************************************************)
(* Initial state                                                           *)
(***************************************************************************)
NoDecision == [kind |-> "unset", val |-> <<>>]

NoException == [type |-> "", at |-> ""]

NoCandidate ==
    [prompts |-> 0, first |-> "unset", stored |-> <<>>, sources |-> <<>>,
     retrieved |-> <<>>]

\* a passage of an earlier run
OldPassage == 0

\* RelationsData.empty(...), or the store an earlier run returned
InitialStores ==
    { [triplets |-> <<>>, provenance |-> <<>>],
      [triplets |-> <<AlInNy>>, provenance |-> (AlInNy :> {OldPassage})] }

InitRun(stubbed, texts) ==
    /\ builder_texts = texts
    /\ decoded_text = <<>>
    /\ asked = <<>>
    /\ valid = <<>>
    /\ warned = 0
    /\ chunks \in {[k \in 1..n |-> k] : n \in 0..MaxPassages}
    /\ delete_models_after_use \in BOOLEAN
    /\ stub = stubbed
    /\ oracle = <<>>
    /\ \E store \in InitialStores :
          /\ triplets = store.triplets
          /\ provenance = store.provenance
    /\ extractor_client = FALSE
    /\ builder_client = FALSE
    /\ extracted_triplets = <<>>
    /\ pc = IF Len(chunks) = 0 THEN "clear_extractor" ELSE "extract"
    /\ i = 1
    /\ j = 0
    /\ attempts = 0
    /\ similar_relations = <<>>
    /\ decision = NoDecision
    /\ generated_text = <<>>
    /\ previous_generation = <<>>
    /\ error = <<>>
    /\ exception = NoException
    /\ hist = <<>>
    /\ cur = NoCandidate
    /\ committed = {}
    /\ commit_log = <<>>
    /\ verdicts = {}

InitWith(stubbed) ==
    /\ InitRun(stubbed, BuilderGenerations)
    /\ api_key = "key"

Init == InitWith(FALSE)

InitStub == InitWith(TRUE)

(***************************************************************************)
(* The oracle                                                              *)
(***************************************************************************)
\* the texts a call may return for the message sent
Answers(message, generations) ==
    IF stub /\ message \in DOMAIN oracle THEN {oracle[message]}
    ELSE generations

Answered(message, text) ==
    IF stub /\ message \notin DOMAIN oracle
    THEN oracle @@ (message :> text)
    ELSE oracle

(***************************************************************************)
(* kg_builder.builder.KGBuilder.build_kg: the branches of the loop body    *)
(***************************************************************************)
\* build_kg without the retry: an error string is dropped like None
first_branch_no_retry(d) ==
    IF d.kind = "None" \/ d.kind = "str" THEN "continue" ELSE "commit"

\* build_kg that asks again when the oracle answers None
first_branch_none_retries(d) ==
    IF d.kind = "None" \/ d.kind = "str" THEN "retry" ELSE "commit"

\* after validate_relation: `continue`, retry_validation, or fall through
first_branch(d) ==
    IF d.kind = "None" THEN "continue"
    ELSE IF d.kind = "str" THEN "retry"
    ELSE "commit"

\* build_kg that drops whatever the retry decides
retry_branch_discards(d) == "continue"

\* after retry_validation: `continue`, or fall through
retry_branch(d) ==
    IF d.kind = "None" \/ d.kind = "str" THEN "continue" ELSE "commit"

\* `if len(decision) > 0`
commits(d) == Len(d.val) > 0



\* `builder.build_kg(extracted_triplets[i], passage=c, **kwargs)`
proposed_relations == extracted_triplets[i]

\* build_kg always given the first passage
passage_first == chunks[1]

passage == chunks[i]

\* `for rel in proposed_relations`
rel == proposed_relations[j]

\* the positions <<passage index, candidate index>> of the candidates
positions(lists) ==
    UNION {{<<a, b>> : b \in 1..Len(lists[a])} : a \in 1..Len(lists)}

before(q, r) == q[1] < r[1] \/ (q[1] = r[1] /\ q[2] < r[2])

\* `break` for `continue`: the rest of the passage is skipped
next_position_break(lists, q) ==
    LET later == {r \in positions(lists) : r[1] > q[1]}
    IN  IF later = {} THEN <<0, 0>>
        ELSE CHOOSE r \in later : \A t \in later : r = t \/ before(r, t)

\* `for rel in reversed(proposed_relations)`
next_position_reversed(lists, q) ==
    IF q[1] >= 1 /\ q[2] > 1 THEN <<q[1], q[2] - 1>>
    ELSE LET later == {a \in 1..Len(lists) : a > q[1] /\ Len(lists[a]) > 0}
         IN  IF later = {} THEN <<0, 0>>
             ELSE LET a == CHOOSE c \in later : \A e \in later : c <= e
                  IN  <<a, Len(lists[a])>>

\* The position of the next candidate in `for i, c in enumerate(chunks)`,
\* `for rel in proposed_relations`, after position q; <<0, 0>> when both
\* loops are exhausted.
next_position(lists, q) ==
    LET later == {r \in positions(lists) : before(q, r)}
    IN  IF later = {} THEN <<0, 0>>
        ELSE CHOOSE r \in later : \A t \in later : r = t \/ before(r, t)

\* build_kg that retrieves again for the retry
retry_similar_relations_refreshed ==
    LET others == retrieve_similar_triplets(triplets, rel) \ {similar_relations}
    IN  IF others = {} THEN similar_relations
        ELSE CHOOSE s \in others : TRUE

\* `similar_relations=similar_relations` of the retry_validation call
retry_similar_relations == similar_relations

\* on to the candidate at q, or out of the loops
GoTo(q) ==
    IF q = <<0, 0>>
    THEN /\ pc' = "clear_builder"
         /\ UNCHANGED <<i, j>>
    ELSE /\ pc' = "retrieve"
         /\ i' = q[1]
         /\ j' = q[2]

Raise(type) ==
    /\ pc' = "raised"
    /\ exception' = [type |-> type, at |-> pc]

\* a failed attempt of the first call uses up the validation retry
AttemptFailsConsumesRetry ==
    /\ attempts' = attempts + 1
    /\ IF pc = "validate"
       THEN pc' = "retry" /\ UNCHANGED exception
       ELSE IF attempts + 1 < StopAfterAttempt
       THEN UNCHANGED <<pc, exception>>
       ELSE Raise("RetryError")

\* a retry decorator without stop_after_attempt: it starts counting again
AttemptFailsForever ==
    /\ attempts' = (attempts + 1) % StopAfterAttempt
    /\ UNCHANGED <<pc, exception>>

\* One attempt of the pending chat_completion raises: tenacity makes another
\* attempt, or gives up at the StopAfterAttempt-th.
AttemptFails ==
    /\ attempts' = attempts + 1
    /\ IF attempts + 1 < StopAfterAttempt
       THEN UNCHANGED <<pc, exception>>
       ELSE Raise("RetryError")

\* the candidate being validated reaches `state`
Note(state, d) ==
    /\ hist' = [hist EXCEPT ![Len(hist)] =
                  [@ EXCEPT !.state = state,
                            !.as_proposed = (d.kind = "tuple" /\ d.val = rel)]]
    /\ verdicts' =
          IF stub
          THEN verdicts \cup
                 {[chunk |-> i, index |-> j,
                   rel |-> rel, stored |-> cur.stored,
                   similar |-> similar_relations, state |-> state,
                   triplet |-> IF state = "Accepted" THEN d.val ELSE <<>>,
                   prompts |-> cur.prompts]}
          ELSE verdicts

\* build_kg that adds the candidate it was given
added_candidate(d) == rel

\* `self.relations_data.add_triplets([decision], passage)`: the triplet added
added_triplet(d) == d.val

\* lines 70-72, then the next candidate
Commit(d) ==
    /\ triplets' = IF commits(d)
                   THEN add_to_triplets(triplets, added_triplet(d))
                   ELSE triplets
    /\ provenance' = IF commits(d)
                     THEN add_to_provenance(provenance, added_triplet(d), passage)
                     ELSE provenance
    /\ committed' = IF commits(d)
                    THEN committed \cup {<<added_triplet(d), passage>>}
                    ELSE committed
    /\ commit_log' = IF commits(d) THEN Append(commit_log, <<i, j>>)
                     ELSE commit_log
    /\ Note("Accepted", d)
    /\ GoTo(next_position(extracted_triplets, <<i, j>>))

\* `continue`
Continue(d) ==
    /\ Note("Discarded", d)
    /\ GoTo(next_position(extracted_triplets, <<i, j>>))
    /\ UNCHANGED <<triplets, provenance, committed, commit_log>>

(***************************************************************************)
(* kg_builder.workflow.EBWorkflow.__call__                                 *)
(***************************************************************************)
ExtractFails ==
    /\ pc = "extract"
    /\ extractor_client' = ~client_raises
    /\ AttemptFails
    /\ UNCHANGED <<chunks, delete_models_after_use, stub, api_key, builder_texts,
                   decoded_text, asked, valid, warned, oracle, triplets,
                   provenance, builder_client, extracted_triplets, i, j,
                   similar_relations, decision, generated_text,
                   previous_generation, error, hist, cur, committed, commit_log,
                   verdicts>>

\* an extraction that puts its first candidate into the store itself
ExtractReturnsIntoStore ==
    /\ pc = "extract"
    /\ ~client_raises
    /\ LET message == sent_message(extractor_get_messages(passage, AllowedTypes))
       IN  \E decoded \in Answers(message, ExtractorGenerations) :
           \E listed \in Orderings(Formatted[decoded]) :
              /\ extracted_triplets' = Append(extracted_triplets, listed)
              /\ oracle' = Answered(message, decoded)
              /\ triplets' = IF Len(listed) > 0
                             THEN add_to_triplets(triplets, listed[1])
                             ELSE triplets
    /\ extractor_client' = TRUE
    /\ attempts' = 0
    /\ IF i < Len(chunks)
       THEN i' = i + 1 /\ pc' = "extract"
       ELSE i' = i /\ pc' = "clear_extractor"
    /\ UNCHANGED <<chunks, delete_models_after_use, stub, api_key, builder_texts,
                   decoded_text, asked, valid, warned, provenance,
                   builder_client, j, similar_relations, decision,
                   generated_text, previous_generation, error, exception,
                   hist, cur, committed, commit_log,
                   verdicts>>

\* extract_from_passage returns: the candidates of passage i are appended
ExtractReturns ==
    /\ pc = "extract"
    /\ ~client_raises
    /\ LET message == sent_message(extractor_get_messages(passage, AllowedTypes))
       IN  \E decoded \in Answers(message, ExtractorGenerations) :
           \E listed \in Orderings(Formatted[decoded]) :
              /\ extracted_triplets' = Append(extracted_triplets, listed)
              /\ oracle' = Answered(message, decoded)
    /\ extractor_client' = TRUE
    /\ attempts' = 0
    /\ IF i < Len(chunks)
       THEN i' = i + 1 /\ pc' = "extract"
       ELSE i' = i /\ pc' = "clear_extractor"
    /\ UNCHANGED <<chunks, delete_models_after_use, stub, api_key, builder_texts,
                   decoded_text, asked, valid, warned, triplets, provenance,
                   builder_client, j, similar_relations, decision,
                   generated_text, previous_generation, error, exception,
                   hist, cur, committed, commit_log,
                   verdicts>>

\* extractor_engine.clear_caches(), then the first candidate
ClearExtractor ==
    /\ pc = "clear_extractor"
    /\ IF delete_models_after_use /\ ~extractor_client
       THEN /\ Raise("AttributeError")
            /\ UNCHANGED <<extractor_client, i, j>>
       ELSE /\ extractor_client' = (extractor_client /\ ~delete_models_after_use)
            /\ GoTo(next_position(extracted_triplets, <<0, 0>>))
            /\ UNCHANGED exception
    /\ UNCHANGED <<chunks, delete_models_after_use, stub, api_key, builder_texts,
                   decoded_text, asked, valid, warned, oracle, triplets,
                   provenance, builder_client, extracted_triplets, attempts,
                   similar_relations, decision, generated_text,
                   previous_generation, error, hist, cur, committed, commit_log,
                   verdicts>>

\* line 57, and validate_relation up to its chat_completion
Retrieve ==
    /\ pc = "retrieve"
    /\ similar_relations' \in retrieve_similar_triplets(triplets, rel)
    /\ hist' = Append(hist, [chunk |-> i, index |-> j, state |-> "Proposed",
                             as_proposed |-> FALSE])
    /\ cur' = [prompts |-> 1, first |-> "unset", stored |-> triplets,
               sources |-> provenance, retrieved |-> similar_relations']
    /\ pc' = "validate"
    /\ attempts' = 0
    /\ decision' = NoDecision
    /\ generated_text' = <<>>
    /\ previous_generation' = <<>>
    /\ error' = <<>>
    /\ UNCHANGED <<chunks, delete_models_after_use, stub, api_key, builder_texts,
                   decoded_text, asked, valid, warned, oracle, triplets,
                   provenance, extractor_client, builder_client,
                   extracted_triplets, i, j, exception, committed, commit_log,
                   verdicts>>

ValidateFails ==
    /\ pc = "validate"
    /\ builder_client' = ~client_raises
    /\ AttemptFails
    /\ UNCHANGED <<chunks, delete_models_after_use, stub, api_key, builder_texts,
                   decoded_text, asked, valid, warned, oracle, triplets,
                   provenance, extractor_client, extracted_triplets, i, j,
                   similar_relations, decision, generated_text,
                   previous_generation, error, hist, cur, committed, commit_log,
                   verdicts>>

\* validate_relation returns; lines 61-72
ValidateReturns ==
    /\ pc = "validate"
    /\ ~client_raises
    /\ LET message == sent_message(get_messages(rel, similar_relations, AllowedTypes))
       IN  \E decoded \in Answers(message, builder_texts) :
              LET d == Decided[decoded]
              IN  /\ oracle' = Answered(message, decoded)
                  /\ generated_text' = decoded
                  /\ decision' = d
                  /\ IF first_branch(d) = "continue"
                     THEN /\ Continue(d)
                          /\ cur' = [cur EXCEPT !.first = d.kind]
                          /\ UNCHANGED <<previous_generation, error>>
                     ELSE IF first_branch(d) = "retry"
                     THEN /\ pc' = "retry"
                          /\ previous_generation' = decoded
                          /\ error' = d.val
                          /\ hist' = [hist EXCEPT ![Len(hist)].state = "RetryPending"]
                          /\ cur' = [cur EXCEPT !.first = d.kind, !.prompts = 2]
                          /\ UNCHANGED <<triplets, provenance, committed,
                                         commit_log, verdicts, i, j>>
                     ELSE /\ Commit(d)
                          /\ cur' = [cur EXCEPT !.first = d.kind]
                          /\ UNCHANGED <<previous_generation, error>>
    /\ builder_client' = TRUE
    /\ attempts' = 0
    /\ UNCHANGED <<chunks, delete_models_after_use, stub, api_key, builder_texts,
                   decoded_text, asked, valid, warned, extractor_client,
                   extracted_triplets, similar_relations, exception>>

RetryFails ==
    /\ pc = "retry"
    /\ AttemptFails
    /\ UNCHANGED <<chunks, delete_models_after_use, stub, api_key, builder_texts,
                   decoded_text, asked, valid, warned, oracle, triplets,
                   provenance, extractor_client, builder_client,
                   extracted_triplets, i, j, similar_relations, decision,
                   generated_text, previous_generation, error, hist, cur,
                   committed, commit_log,
                   verdicts>>

\* retry_validation returns; lines 68-72
RetryReturns ==
    /\ pc = "retry"
    /\ ~client_raises
    /\ LET message == sent_message(retry_messages(rel, retry_similar_relations,
                                                  previous_generation, error,
                                                  AllowedTypes))
       IN  \E decoded \in Answers(message, builder_texts) :
              LET d == Decided[decoded]
              IN  /\ oracle' = Answered(message, decoded)
                  /\ generated_text' = decoded
                  /\ decision' = d
                  /\ IF retry_branch(d) = "continue"
                     THEN Continue(d)
                     ELSE Commit(d)
    /\ attempts' = 0
    /\ UNCHANGED <<chunks, delete_models_after_use, stub, api_key, builder_texts,
                   decoded_text, asked, valid, warned, extractor_client,
                   builder_client, extracted_triplets, similar_relations,
                   previous_generation, error, exception, cur>>

\* builder_engine.clear_caches(), then return searchable_triplets.relations_data
ClearBuilder ==
    /\ pc = "clear_builder"
    /\ IF delete_models_after_use /\ ~builder_client
       THEN /\ Raise("AttributeError")
            /\ UNCHANGED builder_client
       ELSE /\ builder_client' = (builder_client /\ ~delete_models_after_use)
            /\ pc' = "returned"
            /\ UNCHANGED exception
    /\ UNCHANGED <<chunks, delete_models_after_use, stub, api_key, builder_texts,
                   decoded_text, asked, valid, warned, oracle, triplets,
                   provenance, extractor_client, extracted_triplets, i, j,
                   attempts, similar_relations, decision, generated_text,
                   previous_generation, error, hist, cur, committed, commit_log,
                   verdicts>>

Next ==
    \/ ExtractFails
    \/ ExtractReturns
    \/ ClearExtractor
    \/ Retrieve
    \/ ValidateFails
    \/ ValidateReturns
    \/ RetryFails
    \/ RetryReturns
    \/ ClearBuilder

Spec == Init /\ [][Next]_vars

\* a run in which every oracle attempt returns or fails, and the interpreter
\* goes on to the next statement
SpecFair == Init /\ [][Next]_vars /\ WF_vars(Next)

\* a run with GEMINI_API_KEY set or not
InitEnv ==
    /\ InitRun(FALSE, BuilderGenerations)
    /\ api_key \in {"None", "key"}

SpecEnv == InitEnv /\ [][Next]_vars

\* a run whose validation oracle may name an empty triplet
InitDegenerate ==
    /\ InitRun(FALSE, DegenerateGenerations)
    /\ api_key = "key"

SpecDegenerate == InitDegenerate /\ [][Next]_vars

\* a stub oracle answers every call: no attempt raises
NextStub ==
    \/ ExtractReturns
    \/ ClearExtractor
    \/ Retrieve
    \/ ValidateReturns
    \/ RetryReturns
    \/ ClearBuilder

SpecStub == InitStub /\ [][NextStub]_vars

(***************************************************************************)
(* ExtractorPrompting.format_triplets on the texts an oracle may answer    *)
(***************************************************************************)
MaxGroups == 2

\* subject fields as an oracle writes them, with the entity each stands for
SubjectFields ==
    { [text |-> <<" ","A","l"," ",":"," ","p">>, entity |-> <<"a","l",":","P">>, allowed |-> TRUE],
      [text |-> <<"b","o",":","L">>, entity |-> <<"b","o",":","L">>, allowed |-> TRUE],
      [text |-> <<"A","L",":","P">>, entity |-> <<"a","l",":","P">>, allowed |-> TRUE],
      [text |-> <<"a","l",":","L">>, entity |-> <<"a","l",":","L">>, allowed |-> TRUE],
      [text |-> <<"a","l",":","X">>, entity |-> <<"a","l",":","X">>, allowed |-> FALSE] }

\* " IN ", standing for the relation "in"
RelationField == [text |-> <<" ","I","N"," ">>, relation |-> <<"i","n">>]

ObjectFields ==
    { [text |-> <<" ","N","Y",":","l"," ">>, entity |-> <<"n","y",":","L">>, allowed |-> TRUE],
      [text |-> <<"n","y",":","q">>, entity |-> <<"n","y",":","Q">>, allowed |-> FALSE] }

\* "subject,relation,object" between parentheses
ThreeFieldGroups ==
    { [text |-> s.text \o <<",">> \o RelationField.text \o <<",">> \o o.text,
       fields |-> 3,
       allowed |-> s.allowed /\ o.allowed,
       triplet |-> <<s.entity, RelationField.relation, o.entity>>] :
      s \in SubjectFields, o \in ObjectFields }

\* "()", "(Al:p, in)" and "(al:P, in, ny:L, x)"
OtherGroups ==
    { [text |-> <<>>, fields |-> 1, allowed |-> FALSE, triplet |-> <<>>],
      [text |-> <<"A","l",":","p",","," ","i","n">>, fields |-> 2, allowed |-> FALSE, triplet |-> <<>>],
      [text |-> <<"a","l",":","P",","," ","i","n",","," ","n","y",":","L",","," ","x">>, fields |-> 4, allowed |-> FALSE, triplet |-> <<>>] }

Groups == ThreeFieldGroups \cup OtherGroups

\* the groups, each between parentheses, one space apart
RECURSIVE group_text(_)
group_text(gs) ==
    IF Len(gs) = 0 THEN <<>>
    ELSE <<"(">> \o gs[1].text \o <<")">>
         \o (IF Len(gs) > 1 THEN <<" ">> ELSE <<>>)
         \o group_text(Tail(gs))

\* nothing of a run is in progress
NoRun ==
    /\ api_key = "key"
    /\ chunks = <<>>
    /\ delete_models_after_use = FALSE
    /\ stub = FALSE
    /\ oracle = <<>>
    /\ triplets = <<>>
    /\ provenance = <<>>
    /\ extractor_client = FALSE
    /\ builder_client = FALSE
    /\ extracted_triplets = <<>>
    /\ i = 1
    /\ j = 0
    /\ attempts = 0
    /\ similar_relations = <<>>
    /\ decision = NoDecision
    /\ generated_text = <<>>
    /\ previous_generation = <<>>
    /\ error = <<>>
    /\ exception = NoException
    /\ hist = <<>>
    /\ cur = NoCandidate
    /\ committed = {}
    /\ commit_log = <<>>
    /\ verdicts = {}
    /\ builder_texts = {}

\* format_triplets is about to be called on a text of up to MaxGroups groups
InitFormat ==
    /\ NoRun
    /\ pc = "format_triplets"
    /\ asked \in UNION {[1..n -> Groups] : n \in 0..MaxGroups}
    /\ decoded_text = group_text(asked)
    /\ valid = <<>>
    /\ warned = 0

\* the list valid of format_triplets as its loop leaves it
RECURSIVE valid_appended(_, _)
valid_appended(relations, allowed_types) ==
    IF Len(relations) = 0 THEN <<>>
    ELSE (IF format_group(relations[1], allowed_types).valid
          THEN <<format_group(relations[1], allowed_types).triplet>>
          ELSE <<>>)
         \o valid_appended(Tail(relations), allowed_types)

\* format_triplets that returns valid rather than list(set(valid))
FormatTripletsKeepsRepeats ==
    /\ pc = "format_triplets"
    /\ valid' = valid_appended(re_findall_groups(decoded_text), AllowedTypes)
    /\ warned' = format_warnings(decoded_text, AllowedTypes)
    /\ pc' = "formatted"
    /\ UNCHANGED <<chunks, delete_models_after_use, stub, api_key, builder_texts,
                   decoded_text, asked, oracle, triplets, provenance,
                   extractor_client, builder_client, extracted_triplets, i, j,
                   attempts, similar_relations, decision, generated_text,
                   previous_generation, error, exception, hist, cur, committed,
                   commit_log, verdicts>>

\* format_triplets(decoded, allowed_types=allowed_types) returns
FormatTriplets ==
    /\ pc = "format_triplets"
    /\ valid' \in Orderings(format_triplets(decoded_text, AllowedTypes))
    /\ warned' = format_warnings(decoded_text, AllowedTypes)
    /\ pc' = "formatted"
    /\ UNCHANGED <<chunks, delete_models_after_use, stub, api_key, builder_texts,
                   decoded_text, asked, oracle, triplets, provenance,
                   extractor_client, builder_client, extracted_triplets, i, j,
                   attempts, similar_relations, decision, generated_text,
                   previous_generation, error, exception, hist, cur, committed,
                   commit_log, verdicts>>

NextFormat == FormatTriplets

SpecFormat == InitFormat /\ [][NextFormat]_vars

(***************************************************************************)
(* The two parser modes on one group                                       *)
(***************************************************************************)
\* SubjectFields and "a:b:P"
ModeSubjectFields ==
    SubjectFields \cup
    { [text |-> <<"a",":","b",":","P">>, entity |-> <<"a",":","P">>, allowed |-> TRUE] }

\* " IN ", "Add triplet:" and "None" as relations
ModeRelationFields ==
    { RelationField,
      [text |-> add_key, relation |-> str_lower(add_key)],
      [text |-> discard_triplet_value, relation |-> str_lower(discard_triplet_value)] }

\* the groups either mode is given
ModeGroups ==
    { [text |-> s.text \o <<",">> \o r.text \o <<",">> \o o.text,
       fields |-> 3,
       allowed |-> s.allowed /\ o.allowed,
       triplet |-> <<s.entity, r.relation, o.entity>>] :
      s \in ModeSubjectFields, r \in ModeRelationFields, o \in ObjectFields }
    \cup OtherGroups

\* the answer of the validation oracle that proposes the group: the key, a
\* space, the group between parentheses
proposal_text(gs) == add_key \o <<" ">> \o group_text(gs)

\* one group is about to be parsed in extraction mode, then in
\* validation-decision mode
InitModes ==
    /\ NoRun
    /\ pc = "format_triplets"
    /\ asked \in [1..1 -> ModeGroups]
    /\ decoded_text = group_text(asked)
    /\ valid = <<>>
    /\ warned = 0

\* format_triplets("(g)", allowed_types) returns
FormatGroup ==
    /\ pc = "format_triplets"
    /\ valid' \in Orderings(format_triplets(decoded_text, AllowedTypes))
    /\ warned' = format_warnings(decoded_text, AllowedTypes)
    /\ pc' = "extract_new_triplet"
    /\ UNCHANGED <<chunks, delete_models_after_use, stub, api_key, builder_texts,
                   decoded_text, asked, oracle, triplets, provenance,
                   extractor_client, builder_client, extracted_triplets, i, j,
                   attempts, similar_relations, decision, generated_text,
                   previous_generation, error, exception, hist, cur, committed,
                   commit_log, verdicts>>

\* extract_new_triplet("Add triplet: (g)", allowed_types) returns
DecideGroup ==
    /\ pc = "extract_new_triplet"
    /\ generated_text' = proposal_text(asked)
    /\ decision' = extract_new_triplet(proposal_text(asked), AllowedTypes)
    /\ pc' = "decided"
    /\ UNCHANGED <<chunks, delete_models_after_use, stub, api_key, builder_texts,
                   decoded_text, asked, valid, warned, oracle, triplets,
                   provenance, extractor_client, builder_client,
                   extracted_triplets, i, j, attempts, similar_relations,
                   previous_generation, error, exception, hist,
                   cur, committed, commit_log, verdicts>>

\* the triplets either mode made of the group
produced ==
    Range(valid) \cup (IF decision.kind = "tuple" THEN {decision.val} ELSE {})

\* A triplet either mode produced is the candidate rel; it is rendered as the
\* validation prompt shows it; the rendering is parsed in extraction mode,
\* and as the oracle's answer "Add triplet: (...)" in validation-decision mode.
EchoBack ==
    /\ pc = "decided"
    /\ \E t \in produced :
          /\ extracted_triplets' = <<<<t>>>>
          /\ j' = 1
          /\ decoded_text' = get_triplet_string(t)
    /\ valid' \in Orderings(format_triplets(decoded_text', AllowedTypes))
    /\ warned' = format_warnings(decoded_text', AllowedTypes)
    /\ generated_text' = add_key \o <<" ">> \o decoded_text'
    /\ decision' = extract_new_triplet(generated_text', AllowedTypes)
    /\ pc' = "echoed"
    /\ UNCHANGED <<chunks, delete_models_after_use, stub, api_key, builder_texts,
                   asked, oracle, triplets, provenance, extractor_client,
                   builder_client, i, attempts, similar_relations,
                   previous_generation, error, exception, hist, cur, committed,
                   commit_log, verdicts>>

NextModes == FormatGroup \/ DecideGroup \/ EchoBack

SpecModes == InitModes /\ [][NextModes]_vars

(***************************************************************************)
(* BuilderPrompting.extract_new_triplet on the texts an oracle may answer  *)
(***************************************************************************)
MaxPieces == 4

\* The pieces an answer is made of: the key, the discard value, and groups.
\* Of a group: its number of comma-separated fields, whether both type tags
\* are allowed, the type tag that is not, and the triplet it stands for when
\* each entity field is read as name, last colon, type.
MarkerPiece ==
    [kind |-> "marker", text |-> add_key, fields |-> 0, allowed |-> FALSE,
     offending |-> <<>>, triplet |-> <<>>]

SentinelPiece ==
    [kind |-> "sentinel", text |-> discard_triplet_value, fields |-> 0,
     allowed |-> FALSE, offending |-> <<>>, triplet |-> <<>>]

\* "( Al : p, IN , NY:l )", "(a:b:P, in, ny:L)", "(al:X, in, ny:L)", "(al:P, in)"
GroupPieces ==
    { [kind |-> "group", text |-> <<"("," ","A","l"," ",":"," ","p",","," ","I","N"," ",","," ","N","Y",":","l"," ",")">>, fields |-> 3, allowed |-> TRUE,
       offending |-> <<>>, triplet |-> <<<<"a","l",":","P">>, <<"i","n">>, <<"n","y",":","L">>>>],
      [kind |-> "group", text |-> <<"(","a",":","b",":","P",","," ","i","n",","," ","n","y",":","L",")">>, fields |-> 3, allowed |-> TRUE,
       offending |-> <<>>, triplet |-> <<<<"a",":","b",":","P">>, <<"i","n">>, <<"n","y",":","L">>>>],
      [kind |-> "group", text |-> <<"(","a","l",":","X",","," ","i","n",","," ","n","y",":","L",")">>, fields |-> 3, allowed |-> FALSE,
       offending |-> <<"X">>, triplet |-> <<>>],
      [kind |-> "group", text |-> <<"(","a","l",":","P",","," ","i","n",")">>, fields |-> 2, allowed |-> FALSE,
       offending |-> <<>>, triplet |-> <<>>] }

Pieces == {MarkerPiece, SentinelPiece} \cup GroupPieces

\* the pieces, one space apart
RECURSIVE piece_text(_)
piece_text(ps) ==
    IF Len(ps) = 0 THEN <<>>
    ELSE ps[1].text
         \o (IF Len(ps) > 1 THEN <<" ">> ELSE <<>>)
         \o piece_text(Tail(ps))

\* extract_new_triplet is about to be called on an answer of up to MaxPieces
\* pieces
InitDecide ==
    /\ NoRun
    /\ pc = "extract_new_triplet"
    /\ asked \in UNION {[1..n -> Pieces] : n \in 0..MaxPieces}
    /\ decoded_text = piece_text(asked)
    /\ valid = <<>>
    /\ warned = 0

\* extract_new_triplet(decoded, allowed_entity_types=allowed_types) returns
ExtractNewTriplet ==
    /\ pc = "extract_new_triplet"
    /\ decision' = extract_new_triplet(decoded_text, AllowedTypes)
    /\ pc' = "decided"
    /\ UNCHANGED <<chunks, delete_models_after_use, stub, api_key, builder_texts,
                   decoded_text, asked, valid, warned, oracle, triplets,
                   provenance, extractor_client, builder_client,
                   extracted_triplets, i, j, attempts, similar_relations,
                   generated_text, previous_generation, error, exception, hist,
                   cur, committed, commit_log, verdicts>>

NextDecide == ExtractNewTriplet

SpecDecide == InitDecide /\ [][NextDecide]_vars

(***************************************************************************)
(* Properties                                                              *)
(***************************************************************************)
Terminal == {"Accepted", "Discarded"}

\* the candidate validated last has reached a terminal state and is still
\* the one the build_kg locals speak of
Settled == Len(hist) > 0 /\ Last(hist).state \in Terminal

\* the passage the candidate validated last came from
LastPassage == chunks[Last(hist).chunk]

\* the type tag of a stored "name:TYPE" entity
type_of(entity) == Last(str_split(entity, <<":">>))

\* A response that is one well-formed triplet with allowed types: the key
\* once, no discard value after it, one group of three fields after it.
WellFormedAdd(text) ==
    LET parts == str_split(text, add_key)
    IN  /\ Len(parts) = 2
        /\ ~str_contains(parts[2], discard_triplet_value)
        /\ LET groups == re_findall_groups(parts[2])
           IN  /\ Len(groups) = 1
               /\ LET fields == str_split(groups[1], <<",">>)
                  IN  /\ Len(fields) = 3
                      /\ entity_type(fields[1]) \in Range(AllowedTypes)
                      /\ entity_type(fields[3]) \in Range(AllowedTypes)

\* the triplet such a response names
TripletOf(text) ==
    standardize(str_split(re_findall_groups(str_split(text, add_key)[2])[1],
                          <<",">>))

WellFormedGenerations == {g \in BuilderGenerations : WellFormedAdd(g)}

NamedTriplet == [g \in WellFormedGenerations |-> TripletOf(g)]

\* C1: every triplet build_kg passes to add_triplets, after a first attempt
\* or after a retry, has a subject type and an object type in
\* allowed_entity_types.
C1_CommittedTypesAllowed ==
    \A c \in committed :
        /\ type_of(c[1][1]) \in Range(AllowedTypes)
        /\ type_of(c[1][3]) \in Range(AllowedTypes)

\* a response with a type outside the whitelist was answered by a retry, and
\* the retry's triplet was committed
C1_Witness ==
    /\ Settled
    /\ previous_generation = GenBadType
    /\ Last(hist).state = "Accepted"
    /\ <<decision.val, LastPassage>> \in committed

\* C2: a candidate gets at most two validation prompts; the second is issued
\* exactly when the first parse yields an error string, and whatever the
\* second parse yields the candidate is then settled.
C2_AtMostOneRetry ==
    /\ cur.prompts <= 2
    /\ (cur.prompts = 2) <=> (cur.first = "str")
    /\ (pc = "retry") <=> (Len(hist) > 0 /\ Last(hist).state = "RetryPending"
                           /\ exception = NoException)
    /\ pc = "retry" => cur.prompts = 2

\* the second parse yields an error string too, and the candidate is settled
C2_Witness ==
    /\ Settled
    /\ cur.prompts = 2
    /\ decision.kind = "str"
    /\ pc = "retrieve"

\* C3: when the first response lacks the key and the retry response is one
\* well-formed triplet with allowed types, the triplet parsed from the retry
\* response is committed, bound to the current passage.
C3_RetryCommits ==
    ( /\ Settled
      /\ cur.prompts = 2
      /\ ~str_contains(previous_generation, add_key)
      /\ generated_text \in WellFormedGenerations )
    => /\ Last(hist).state = "Accepted"
       /\ decision.val = NamedTriplet[generated_text]
       /\ decision.val \in Range(triplets)
       /\ LastPassage \in provenance[decision.val]
       /\ <<decision.val, LastPassage>> \in committed

\* the retry of a response without the key names another triplet than the
\* candidate, and that triplet is in the store with the current passage
C3_Witness ==
    /\ Settled
    /\ previous_generation = GenNoKey
    /\ generated_text = GenAddBo
    /\ BoInNy \in Range(triplets)
    /\ LastPassage \in provenance[BoInNy]
    /\ BoInNy \notin Range(cur.stored)

\* the candidate after position q in passage order, then list order
Successors(q) ==
    {r \in positions(extracted_triplets) :
        /\ before(q, r)
        /\ \A t \in positions(extracted_triplets) :
              before(q, t) => (t = r \/ before(r, t))}

\* C4: when the first and the retry response both parse to an error string,
\* the candidate leaves triplets and provenance as they were, and the run
\* goes on with the next candidate; a run that leaves the loops has validated
\* every candidate of every passage.
C4_DoubleErrorDiscards ==
    /\ ( /\ Settled
         /\ cur.prompts = 2
         /\ decision.kind = "str" )
       => /\ Last(hist).state = "Discarded"
          /\ triplets = cur.stored
          /\ provenance = cur.sources
          /\ pc \in {"retrieve", "clear_builder", "returned"}
          /\ pc = "retrieve" =>
                <<i, j>> \in Successors(<<Last(hist).chunk, Last(hist).index>>)
          /\ pc # "retrieve" =>
                Successors(<<Last(hist).chunk, Last(hist).index>>) = {}
    /\ pc \in {"clear_builder", "returned"} =>
          /\ Len(hist) = Cardinality(positions(extracted_triplets))
          /\ \A k \in DOMAIN hist : hist[k].state \in Terminal

\* two malformed responses for the first candidate of a passage, and the
\* second candidate of that passage is next
C4_Witness ==
    /\ Settled
    /\ cur.prompts = 2
    /\ decision.kind = "str"
    /\ pc = "retrieve"
    /\ i = Last(hist).chunk
    /\ j = Last(hist).index + 1

\* C5: a validation call that fails after the call layer's attempts are
\* exhausted skips only that candidate: nothing is raised out of build_kg or
\* __call__.
C5_ValidationFailureIsSkipped ==
    ~( /\ pc = "raised"
       /\ exception.type = "RetryError"
       /\ exception.at \in {"validate", "retry"} )

\* C6: the store holds no two equal triplets, and committing a triplet that
\* is already stored leaves the triplets as they were.
C6_NoDuplicateTriplets ==
    /\ \A a, b \in DOMAIN triplets : a # b => triplets[a] # triplets[b]
    /\ ( /\ Settled
         /\ Last(hist).state = "Accepted"
         /\ decision.val \in Range(cur.stored) )
       => triplets = cur.stored

\* a triplet that was already stored is committed again
C6_Witness ==
    /\ Settled
    /\ Last(hist).state = "Accepted"
    /\ decision.val \in Range(cur.stored)
    /\ <<decision.val, LastPassage>> \in committed

\* C7: every triplet committed in the run maps to the passages it was
\* committed from, so to at least one, and is stored once however many
\* passages it was committed from.
C7_ProvenanceAccumulates ==
    \A c \in committed :
        /\ c[1] \in DOMAIN provenance
        /\ c[2] \in provenance[c[1]]
        /\ provenance[c[1]] # {}
        /\ Cardinality({k \in DOMAIN triplets : triplets[k] = c[1]}) = 1

\* one triplet committed from two passages of the run
C7_Witness ==
    \E c, e \in committed :
        /\ c[1] = e[1]
        /\ c[2] # e[2]
        /\ {c[2], e[2]} \subseteq provenance[c[1]]

\* the store the run started from was empty
StartedEmpty == \A t \in DOMAIN provenance : OldPassage \notin provenance[t]

\* every passage yielded one candidate, the candidates differ, and each was
\* accepted as proposed
OneAcceptedPerPassage ==
    /\ \A k \in DOMAIN extracted_triplets : Len(extracted_triplets[k]) = 1
    /\ \A a, b \in DOMAIN extracted_triplets :
          a # b => extracted_triplets[a][1] # extracted_triplets[b][1]
    /\ \A k \in DOMAIN hist :
          hist[k].state = "Accepted" /\ hist[k].as_proposed

\* C8: from an empty store, when each of the N passages yields one distinct
\* candidate and each is accepted, the returned store holds exactly N
\* triplets, candidate i with passage i as its provenance.
C8_OneTripletPerPassage ==
    (pc = "returned" /\ StartedEmpty /\ OneAcceptedPerPassage)
    => /\ Len(triplets) = Len(chunks)
       /\ \A k \in DOMAIN chunks :
             /\ extracted_triplets[k][1] \in Range(triplets)
             /\ provenance[extracted_triplets[k][1]] = {chunks[k]}

\* a run over two passages returns two triplets
C8_Witness ==
    /\ pc = "returned"
    /\ StartedEmpty
    /\ OneAcceptedPerPassage
    /\ Len(chunks) = 2
    /\ Len(triplets) = 2

\* C9: under oracles that answer a prompt always the same, two validations
\* of the same candidate against the same stored triplets and the same
\* retrieved list end in the same state, with the same triplet, after the
\* same number of prompts.
C9_SameVerdict ==
    \A a, b \in verdicts :
        (a.rel = b.rel /\ a.stored = b.stored /\ a.similar = b.similar)
        => /\ a.state = b.state
           /\ a.triplet = b.triplet
           /\ a.prompts = b.prompts

\* the same candidate validated twice against the same store, with a retry
C9_Witness ==
    \E a, b \in verdicts :
        /\ a.chunk # b.chunk
        /\ a.rel = b.rel /\ a.stored = b.stored /\ a.similar = b.similar
        /\ a.prompts = 2

\* the k-th candidate in passage order, then list order
IsNth(q, k) ==
    /\ q \in positions(extracted_triplets)
    /\ Cardinality({r \in positions(extracted_triplets) : before(r, q)}) = k - 1

\* C10: candidates are validated one at a time, in passage order and within
\* a passage in list order; a candidate is retrieved for only when all before
\* it are settled; while one is in flight the store is as its retrieval found
\* it; commits are applied in that same order.
C10_OneAtATimeInOrder ==
    /\ \A k \in DOMAIN hist : IsNth(<<hist[k].chunk, hist[k].index>>, k)
    /\ \A k \in DOMAIN hist : k < Len(hist) => hist[k].state \in Terminal
    /\ pc \in {"validate", "retry"} =>
          /\ Last(hist).state \in {"Proposed", "RetryPending"}
          /\ <<i, j>> = <<Last(hist).chunk, Last(hist).index>>
          /\ triplets = cur.stored
          /\ provenance = cur.sources
    /\ pc \in {"retrieve", "clear_builder", "returned"} =>
          \A k \in DOMAIN hist : hist[k].state \in Terminal
    /\ \A a, b \in DOMAIN commit_log :
          a < b => before(commit_log[a], commit_log[b])
    /\ \A k \in DOMAIN commit_log :
          \E h \in DOMAIN hist :
             /\ <<hist[h].chunk, hist[h].index>> = commit_log[k]
             /\ hist[h].state = "Accepted"

\* the second candidate of the second passage is in flight after a commit
\* for each passage
C10_Witness ==
    /\ pc = "validate"
    /\ i = 2
    /\ j = 2
    /\ Len(hist) >= 3
    /\ \E a, b \in DOMAIN commit_log :
          commit_log[a][1] = 1 /\ commit_log[b][1] = 2

\* C11: the retrieval for a candidate searches the store as it is at that
\* moment: whenever the store is small enough for the retrieval to return all
\* of it, every triplet committed earlier in the run is in the list retrieved
\* for the candidate, and every retrieved string is a stored triplet's.
C11_RetrievalSeesCommits ==
    pc \in {"validate", "retry"} =>
        /\ \A s \in Range(similar_relations) :
              \E t \in Range(triplets) : s = get_triplet_string(t)
        /\ Len(triplets) <= TopK =>
              \A c \in committed :
                 get_triplet_string(c[1]) \in Range(similar_relations)

\* a candidate is being validated with, among the retrieved, a triplet that
\* only this run has committed
C11_Witness ==
    /\ pc = "validate"
    /\ Len(hist) >= 2
    /\ \E c \in committed :
          /\ OldPassage \notin provenance[c[1]]
          /\ get_triplet_string(c[1]) \in Range(similar_relations)

\* C12: during a run the store's triplets only grow: no step removes a stored
\* triplet, so the triplets of the initial store and those committed earlier
\* are all in the store that is returned.
C12_StoreOnlyGrows ==
    [][\A t \in Range(triplets) : t \in Range(triplets')]_vars

\* a run that began with a stored triplet and committed another has returned
C12_Witness ==
    /\ pc = "returned"
    /\ Len(triplets) = 2
    /\ \E t \in Range(triplets) : OldPassage \in provenance[t]
    /\ \E t \in Range(triplets) : OldPassage \notin provenance[t]

\* C13: what a commit adds to the store is the triplet parsed from the
\* oracle's final response: the store gains that triplet for the current
\* passage and nothing else, so the candidate itself is added only when the
\* oracle returned it.
C13_OracleTripletCommitted ==
    [][commit_log' # commit_log =>
          /\ decision'.kind = "tuple"
          /\ Range(triplets') = Range(triplets) \cup {decision'.val}
          /\ committed' = committed \cup {<<decision'.val, chunks[i]>>}
          /\ DOMAIN provenance' = DOMAIN provenance \cup {decision'.val}]_vars

\* the oracle's triplet differs from the candidate: it is stored, and the
\* candidate is not
C13_Witness ==
    /\ Settled
    /\ Last(hist).state = "Accepted"
    /\ ~Last(hist).as_proposed
    /\ decision.kind = "tuple"
    /\ decision.val \in Range(triplets)
    /\ extracted_triplets[Last(hist).chunk][Last(hist).index] \notin Range(triplets)

\* C14: a candidate whose first response parses to None is Discarded at once:
\* only the first prompt was sent for it, no retry is pending, and the
\* store's triplets and provenance are as they were when it was retrieved.
C14_NoOpDiscardsAtOnce ==
    cur.first = "None" =>
        /\ Settled
        /\ Last(hist).state = "Discarded"
        /\ cur.prompts = 1
        /\ pc # "retry"
        /\ triplets = cur.stored
        /\ provenance = cur.sources

\* the first response to a candidate was the discard value, with a store
\* that holds a triplet
C14_Witness ==
    /\ cur.first = "None"
    /\ generated_text = GenDiscard
    /\ Len(triplets) > 0
    /\ Last(hist).state = "Discarded"

\* a triplet with an empty subject name, relation or object name
Degenerate(t) ==
    \/ str_split(t[1], <<":">>)[1] = <<>>
    \/ t[2] = <<>>
    \/ str_split(t[3], <<":">>)[1] = <<>>

\* C15: a decision whose triplet has a zero-length subject name, relation or
\* object name is not committed: add_triplets is never called with it and the
\* candidate is not Accepted with it.
C15_DegenerateNotCommitted ==
    /\ \A c \in committed : ~Degenerate(c[1])
    /\ \A t \in Range(triplets) : ~Degenerate(t)

\* the groups of the parsed text, by what was written in them
WellFormedGroups == {k \in 1..Len(asked) : asked[k].fields = 3 /\ asked[k].allowed}

WrongArityGroups == {k \in 1..Len(asked) : asked[k].fields # 3}

WrongTypeGroups == {k \in 1..Len(asked) : asked[k].fields = 3 /\ ~asked[k].allowed}

\* C16: extraction-mode parsing of a group of exactly 3 fields whose two type
\* tags are allowed yields its triplet, names and relation trimmed and
\* lowercased, types trimmed and uppercased: a text that is one such group
\* yields exactly that triplet, and in a longer text the triplet is among
\* those returned, once.
C16_WellFormedGroupYieldsTriplet ==
    pc = "formatted" =>
        /\ \A k \in WellFormedGroups :
              Cardinality({n \in 1..Len(valid) : valid[n] = asked[k].triplet}) = 1
        /\ (Len(asked) = 1 /\ WellFormedGroups = {1}) =>
              valid = <<asked[1].triplet>>

\* "( Al : p, IN , NY:l )" alone was parsed
C16_Witness ==
    /\ pc = "formatted"
    /\ Len(asked) = 1
    /\ WellFormedGroups = {1}
    /\ asked[1].text # get_triplet_string(asked[1].triplet)
    /\ Len(valid) = 1

\* C17: every group whose field count is not 3 adds no triplet and one
\* warning, and the other groups of the text are parsed as if it were not
\* there.
C17_WrongArityWarnsAndSkips ==
    (pc = "formatted" /\ WrongArityGroups # {}) =>
        /\ warned = Cardinality(WrongArityGroups) + Cardinality(WrongTypeGroups)
        /\ Range(valid) = {asked[k].triplet : k \in WellFormedGroups}

\* a text with a group of wrong arity and a well-formed group was parsed
C17_Witness ==
    /\ pc = "formatted"
    /\ WrongArityGroups # {}
    /\ WellFormedGroups # {}
    /\ Len(valid) = 1
    /\ warned = 1

\* C18: a group with a subject or object type outside the whitelist is
\* dropped whole, with a warning: no returned triplet carries a type outside
\* the whitelist or an entity of that group alone, and the well-formed groups
\* of the text are still returned.
C18_WrongTypeDropsGroup ==
    (pc = "formatted" /\ WrongTypeGroups # {}) =>
        /\ warned >= Cardinality(WrongTypeGroups)
        /\ \A n \in 1..Len(valid) :
              /\ Len(valid[n]) = 3
              /\ type_of(valid[n][1]) \in Range(AllowedTypes)
              /\ type_of(valid[n][3]) \in Range(AllowedTypes)
        /\ \A k \in WellFormedGroups : asked[k].triplet \in Range(valid)
        /\ Len(valid) <= Cardinality(WellFormedGroups)

\* a text with a group whose object type is not allowed, and a well-formed
\* group after it, was parsed
C18_Witness ==
    /\ pc = "formatted"
    /\ Len(asked) = 2
    /\ WrongTypeGroups = {1}
    /\ WellFormedGroups = {2}
    /\ type_of(asked[1].triplet[1]) \in Range(AllowedTypes)
    /\ valid = <<asked[2].triplet>>
    /\ warned = 1

\* C19: an extraction call that fails after the call layer's attempts are
\* exhausted skips that passage: nothing is raised out of __call__.
C19_ExtractionFailureIsSkipped ==
    ~( /\ pc = "raised"
       /\ exception.type = "RetryError"
       /\ exception.at = "extract" )

\* every passage has been extracted and none yielded a candidate
NoCandidates ==
    /\ pc \notin {"extract", "format_triplets", "formatted"}
    /\ Len(extracted_triplets) = Len(chunks)
    /\ \A k \in 1..Len(chunks) : Len(extracted_triplets[k]) = 0

\* C20: a run in which no passage yields a candidate (or there is no passage)
\* makes no validation call, changes nothing in the store and completes: it
\* does not fail, whatever delete_models_after_use is.
C20_EmptyRunReturns ==
    NoCandidates =>
        /\ hist = <<>>
        /\ ~builder_client
        /\ committed = {}
        /\ pc # "raised"

\* C23: a missing GEMINI_API_KEY is reported before any pipeline work and is
\* not re-attempted: once the key is found missing no further attempt of the
\* call is made, and what the run raises is the configuration error.
C23_MissingKeyFailsAtStartup ==
    api_key = "None" =>
        /\ attempts <= 1
        /\ exception.type \in {"", "ValueError"}

\* C21: the list retrieved for a candidate is no longer than the store, holds
\* only stored triplets, is empty when the store is empty, and the retrieval
\* leaves the store's triplets and provenance as they were.
C21_RetrievalWithinStore ==
    pc \in {"validate", "retry"} =>
        /\ Len(similar_relations) <= Len(cur.stored)
        /\ \A s \in Range(similar_relations) :
              \E t \in Range(cur.stored) : s = get_triplet_string(t)
        /\ cur.stored = <<>> => similar_relations = <<>>
        /\ triplets = cur.stored
        /\ provenance = cur.sources

\* a run that began with an empty store retrieves for a later candidate from
\* a store of one triplet
C21_Witness ==
    /\ pc = "validate"
    /\ Len(hist) >= 2
    /\ Len(triplets) = 1
    /\ OldPassage \notin provenance[triplets[1]]
    /\ similar_relations = <<get_triplet_string(triplets[1])>>

\* C22: the two retry mechanisms are separate.  A raised attempt is made again
\* only inside the call, at most StopAfterAttempt attempts per call, and
\* leaves the candidate's prompts and state as they are; a response that
\* parses to an error string is not asked for again by the call layer: it
\* starts the one validation-level re-prompt, with a fresh call, or (at the
\* retry) ends the candidate.  So a candidate costs at most 2 calls of at most
\* StopAfterAttempt attempts.
C22_TwoRetryLayers ==
    [][ /\ attempts' <= StopAfterAttempt
        /\ attempts' = StopAfterAttempt => pc' = "raised"
        /\ attempts' > attempts =>
              /\ attempts' = attempts + 1
              /\ cur' = cur
              /\ hist' = hist
              /\ pc' \in {pc, "raised"}
        /\ (pc = "validate" /\ pc' = "retry") =>
              /\ decision'.kind = "str"
              /\ attempts' = 0
              /\ cur.prompts = 1
              /\ cur'.prompts = 2
        /\ (pc = "retry" /\ pc' \notin {"retry", "raised"}) =>
              /\ Last(hist').state \in Terminal
              /\ cur'.prompts = 2
        /\ (cur'.prompts - 1) * StopAfterAttempt + attempts'
              <= 2 * StopAfterAttempt ]_vars

\* the retry call of a candidate is at its last attempt
C22_Witness ==
    /\ pc = "retry"
    /\ cur.prompts = 2
    /\ attempts = StopAfterAttempt - 1

\* what the engine submits for the retry of the current candidate
RetrySubmission ==
    sent_message(retry_messages(rel, similar_relations, previous_generation,
                                error, AllowedTypes))

\* C24: the text submitted to the oracle for a retry contains the original
\* candidate, the previous oracle output and the error message.
C24_RetrySubmissionComplete ==
    pc = "retry" =>
        /\ \/ RetrySubmission.proposed = get_triplet_string(rel)
           \/ str_contains(RetrySubmission.generation, get_triplet_string(rel))
        /\ RetrySubmission.generation = previous_generation
        /\ RetrySubmission.error = error

\* C25: the retry reuses the list retrieved before the first attempt: the
\* messages built for the retry carry that list, and no candidate is
\* retrieved for twice.
C25_RetryReusesRetrieval ==
    /\ \A a, b \in 1..Len(hist) :
          a # b => <<hist[a].chunk, hist[a].index>> # <<hist[b].chunk, hist[b].index>>
    /\ pc = "retry" =>
          /\ <<Last(hist).chunk, Last(hist).index>> = <<i, j>>
          /\ similar_relations = cur.retrieved
          /\ retry_messages(rel, retry_similar_relations, previous_generation,
                            error, AllowedTypes)[2].content.extracted
                = IF Len(cur.retrieved) = 0 THEN EmptyGraph
                  ELSE str_join(cur.retrieved)

\* a retry is pending for a candidate that was retrieved for from a store of
\* two triplets
C25_Witness ==
    /\ pc = "retry"
    /\ Len(cur.retrieved) = 2
    /\ Len(hist) >= 2

\* the answer that was parsed, by the pieces written in it
Markers == {k \in 1..Len(asked) : asked[k].kind = "marker"}

FirstMarker == CHOOSE k \in Markers : \A m \in Markers : k <= m

SentinelFollows ==
    \E k \in (FirstMarker + 1)..Len(asked) : asked[k].kind = "sentinel"

GroupsFollowing ==
    {k \in (FirstMarker + 1)..Len(asked) : asked[k].kind = "group"}

\* C26: an entity field is split on its last colon: of an answer that is the
\* key and one group of three fields with allowed types, the decision is the
\* triplet whose names are what precedes the last colon of fields 1 and 3,
\* trimmed and lowercased, and whose types are what follows it, trimmed and
\* uppercased.
C26_SplitOnLastColon ==
    ( /\ pc = "decided"
      /\ Len(asked) = 2
      /\ asked[1] = MarkerPiece
      /\ asked[2].kind = "group"
      /\ asked[2].fields = 3
      /\ asked[2].allowed ) =>
        decision = TripletDecision(asked[2].triplet)

\* C27: an answer without the key parses to an error string that names the
\* key, whatever else it holds: never to None, never to a triplet.
C27_MissingMarkerIsError ==
    (pc = "decided" /\ Markers = {}) =>
        /\ decision.kind = "str"
        /\ str_contains(decision.val, add_key)

\* an answer without the key, with the discard value and a well-formed group
\* in it, was parsed
C27_Witness ==
    /\ pc = "decided"
    /\ Markers = {}
    /\ \E k \in 1..Len(asked) : asked[k].kind = "sentinel"
    /\ \E k \in 1..Len(asked) : asked[k].kind = "group" /\ asked[k].allowed
    /\ decision.kind = "str"

\* C28: when the key is present and the discard value follows it, the
\* decision is None, whatever groups follow the key.
C28_SentinelAfterMarkerIsNoOp ==
    (pc = "decided" /\ Markers # {} /\ SentinelFollows) =>
        decision = NoneDecision

\* C29: when the key is present and no discard value follows it, anything but
\* exactly one group of exactly 3 fields after the key parses to an error
\* string: never to a triplet, never to None.
C29_OneGroupOfThreeFields ==
    (pc = "decided" /\ Markers # {} /\ ~SentinelFollows) =>
        /\ decision.kind \in {"str", "tuple"}
        /\ ~( /\ Cardinality(GroupsFollowing) = 1
              /\ \A g \in GroupsFollowing : asked[g].fields = 3 ) =>
              decision.kind = "str"

\* the key is followed by no discard value and by one group, of 3 fields, with
\* a type tag outside the whitelist
TypeViolationAnswer ==
    /\ pc = "decided"
    /\ Markers # {}
    /\ ~SentinelFollows
    /\ Cardinality(GroupsFollowing) = 1
    /\ \A g \in GroupsFollowing : asked[g].fields = 3 /\ ~asked[g].allowed

C31_NoTwoEqualTriplets ==
    pc = "formatted" =>
        /\ \A a, b \in 1..Len(valid) : valid[a] = valid[b] => a = b
        /\ Len(valid) = Cardinality({asked[k].triplet : k \in WellFormedGroups})
        /\ \A k, m \in WellFormedGroups :
              asked[k].triplet # asked[m].triplet =>
                 \E a, b \in 1..Len(valid) :
                    a # b /\ valid[a] = asked[k].triplet /\ valid[b] = asked[m].triplet

\* two groups written differently that stand for the same triplet were
\* parsed, and one triplet returned
C31_Witness ==
    /\ pc = "formatted"
    /\ WellFormedGroups = {1, 2}
    /\ asked[1].text # asked[2].text
    /\ asked[1].triplet = asked[2].triplet
    /\ Len(valid) = 1

\* two groups that differ only in the subject's type tag were parsed, and two
\* triplets returned
C31_TypeTagsStayDistinct ==
    /\ pc = "formatted"
    /\ WellFormedGroups = {1, 2}
    /\ asked[1].triplet[1] = <<"a","l",":","P">>
    /\ asked[2].triplet[1] = <<"a","l",":","L">>
    /\ asked[1].triplet[3] = asked[2].triplet[3]
    /\ Len(valid) = 2

\* C32: extraction is decoupled from the store. No step of the extraction
\* phase changes the store's triplets or provenance, and the list it appends
\* is what format_triplets makes of an oracle text and the allowed types;
\* every retrieval, validation call and commit happens with the candidates of
\* every passage already extracted, and leaves them alone; the store changes
\* only in the step that commits an Accepted decision.
C32_ExtractionDecoupled ==
    [][ /\ pc \in {"extract", "clear_extractor"} =>
              /\ UNCHANGED <<triplets, provenance>>
              /\ extracted_triplets' # extracted_triplets =>
                    \E decoded \in ExtractorGenerations :
                       /\ Len(extracted_triplets') = Len(extracted_triplets) + 1
                       /\ Last(extracted_triplets')
                             \in Orderings(format_triplets(decoded, AllowedTypes))
        /\ pc \in {"retrieve", "validate", "retry"} =>
              /\ Len(extracted_triplets) = Len(chunks)
              /\ UNCHANGED extracted_triplets
        /\ (triplets' # triplets \/ provenance' # provenance) =>
              /\ pc \in {"validate", "retry"}
              /\ decision'.kind = "tuple"
              /\ hist'[Len(hist)].state = "Accepted"
              /\ Len(commit_log') = Len(commit_log) + 1
      ]_vars

\* both passages were extracted, then a candidate was committed, and the next
\* candidate is about to be validated
C32_Witness ==
    /\ Len(chunks) = 2
    /\ Len(extracted_triplets) = 2
    /\ pc = "retrieve"
    /\ Len(commit_log) = 1
    /\ triplets # cur.stored

\* C33: a run over a finite document terminates when every oracle attempt
\* returns or fails: no call is attempted more than StopAfterAttempt times,
\* no candidate is submitted more than twice, no passage is extracted twice,
\* no candidate is validated twice, and in the end the workflow has returned
\* the store or raised.
C33_RunTerminates ==
    /\ [](/\ attempts <= StopAfterAttempt
          /\ attempts = StopAfterAttempt => pc = "raised"
          /\ cur.prompts <= 2
          /\ Len(extracted_triplets) <= Len(chunks)
          /\ \A a, b \in 1..Len(hist) :
                (hist[a].chunk = hist[b].chunk /\ hist[a].index = hist[b].index)
                   => a = b)
    /\ <>[](pc \in {"returned", "raised"})
    /\ [](pc = "returned" =>
             /\ Len(extracted_triplets) = Len(chunks)
             /\ Len(hist) = Cardinality(positions(extracted_triplets))
             /\ \A a \in 1..Len(hist) : hist[a].state \in {"Accepted", "Discarded"})

\* a run over MaxPassages passages returned after validating several
\* candidates, one of them twice
C33_Witness ==
    /\ pc = "returned"
    /\ Len(chunks) = MaxPassages
    /\ Len(hist) >= 2
    /\ cur.prompts = 2
    /\ commit_log # <<>>

\* C34: the two parser modes normalize alike. Of a group without the discard
\* value, with 3 fields and both type tags allowed, validation-decision
\* parsing of "Add triplet: (g)" returns the triplet that is the only element
\* extraction-mode parsing of "(g)" returns; and when extraction mode returns
\* nothing for the group, validation-decision mode returns an error string.
C34_ModesNormalizeAlike ==
    ( /\ pc = "decided"
      /\ Len(asked) = 1
      /\ ~str_contains(asked[1].text, discard_triplet_value) ) =>
        /\ (asked[1].fields = 3 /\ asked[1].allowed) =>
              /\ Len(valid) = 1
              /\ decision = TripletDecision(valid[1])
        /\ valid = <<>> => decision.kind = "str"

\* no comma, parenthesis or colon in s
Plain(s) == \A k \in 1..Len(s) : s[k] \notin {",", "(", ")", ":"}

\* the name of "name:TYPE"
name_of(entity) == SubSeq(entity, 1, str_find(entity, <<":">>) - 1)

\* C35: rendering and parsing again is a round trip. Of a triplet t that a
\* parser mode produced, with no comma, parenthesis or colon in its names and
\* relation, extraction-mode parsing of get_triplet_string(t) returns [t],
\* without a warning, and validation-decision parsing of the rendering after
\* the key returns t.
C35_RenderParseRoundTrip ==
    ( /\ pc = "echoed"
      /\ Plain(name_of(rel[1]))
      /\ Plain(rel[2])
      /\ Plain(name_of(rel[3])) ) =>
        /\ decoded_text = get_triplet_string(rel)
        /\ valid = <<rel>>
        /\ warned = 0
        /\ decision = TripletDecision(rel)

\* "( Al : p, IN , NY:l )"-like text, which is not its own rendering, was
\* parsed, and the triplet was rendered and parsed again
C35_Witness ==
    /\ pc = "echoed"
    /\ Plain(name_of(rel[1])) /\ Plain(rel[2]) /\ Plain(name_of(rel[3]))
    /\ <<"(">> \o asked[1].text \o <<")">> # decoded_text
    /\ rel = asked[1].triplet
    /\ valid = <<rel>>

\* the second occurrence of the key in the answer
SecondMarker ==
    CHOOSE k \in Markers \ {FirstMarker} : \A m \in Markers \ {FirstMarker} : k <= m

\* the pieces between the first and the second occurrence of the key
Between == {k \in 1..Len(asked) : FirstMarker < k /\ k < SecondMarker}

\* C36: when the key occurs more than once, the decision is that of the text
\* between its first and second occurrence, whatever follows the second: the
\* decision is the one the answer cut before the second key would get; it is
\* None exactly when the discard value stands in between, a triplet only when
\* one group stands in between, and the invalid-value error when neither
\* stands in between.
C36_OnlyUpToSecondMarker ==
    (pc = "decided" /\ Cardinality(Markers) >= 2) =>
        /\ decision = extract_new_triplet(piece_text(SubSeq(asked, 1, SecondMarker - 1)),
                                          AllowedTypes)
        /\ decision.kind = "None" <=> \E k \in Between : asked[k].kind = "sentinel"
        /\ decision.kind = "tuple" =>
              /\ Cardinality({k \in Between : asked[k].kind = "group"}) = 1
              /\ \A k \in Between : asked[k].kind = "group" =>
                    asked[k].fields = 3 /\ asked[k].allowed
        /\ Between = {} => decision = ErrorDecision(InvalidValueError)

\* an answer with a group between two keys and the discard value after the
\* second was parsed to a triplet
C36_Witness ==
    /\ pc = "decided"
    /\ Cardinality(Markers) >= 2
    /\ \E k \in Between : asked[k].kind = "group"
    /\ \E k \in (SecondMarker + 1)..Len(asked) : asked[k].kind = "sentinel"
    /\ decision.kind = "tuple"

====
